---- MODULE Spec2Model ----
(***************************************************************************)
(* Model of src/app.py: the crawl / translate / persist loop of one book,  *)
(* its in-memory state dict, the error list, the objects of the bucket     *)
(* (state.json, errors.json, chapters/NNN.html) and the three control      *)
(* routes /start, /stop and /reset.                                        *)
(*                                                                         *)
(* Threads: every /start that finds running == False spawns one daemon     *)
(* thread executing worker(); the routes are sync handlers that the server *)
(* runs on pool threads, so a handler interleaves with the workers and     *)
(* with the other handlers, those of the same route included, and nothing  *)
(* locks the dict or the list.  Requests are numbered as they arrive, and  *)
(* the thread a /start spawns carries the number of its request.  A        *)
(* step of the model is one straight run of in-memory statements ending at *)
(* a test of shared state or at a call, where the interpreter may switch   *)
(* threads: the dict and list methods (clear, update, append), str, the    *)
(* entry of save_json (json.dumps reads the shared object after the entry, *)
(* so the body holds what the object is at that moment), and the blocking  *)
(* calls (put_object, delete_object, requests.get, the OpenAI call,        *)
(* sleep), whose return or exception is a step of its own.  Between        *)
(* state.clear() and state.update(...) of /reset the dict has no key: a    *)
(* read of a missing key raises KeyError where the code reads it.          *)
(*                                                                         *)
(* Environment: the site is a next-link function over a finite set of      *)
(* page URLs; scrape, translate and every call to the bucket (put_object,  *)
(* delete_object, list_objects_v2) may raise.  The text of a page is       *)
(* abstracted to the page it came from.                                    *)
(***************************************************************************)
EXTENDS Integers, Sequences, FiniteSets, TLC

\* ---------------------------------------------------------------- bounds
NumUrls == 1
MaxCalls == 2

NoUrl == 0

VARIABLES
    state,      \* the module-level dict `state`
    errors,     \* the module-level list `errors`
    store,      \* objects under chapters/ in the bucket: set of [key, body]
    pstate,     \* state.json in the bucket: << >> (absent) or <<dict>>
    perrors,    \* errors.json in the bucket: << >> (absent) or <<list>>
    workers,    \* worker threads: request -> [pc, url, next_url, num, rec, buf]
    startCall,  \* the /start requests: request -> [pc, url, buf]
    stopCall,   \* the /stop requests: request -> [pc, buf]
    resetCall,  \* the /reset requests: request -> [pc, objs, buf]
    links,      \* the site: page URL -> URL of its second pagination anchor
    calls_left, \* control requests (and restarts) still to come; the next
                \* request to arrive has this number
    at_stop,    \* history: << >>, or <<store>> as it was at the first observed
                \* /stop that found a worker alive
    began,      \* history: the threads whose present iteration passed the
                \* loop test with current_url in visited
    called      \* history: the /start requests that arrived when running was
                \* True

vars == <<state, errors, store, pstate, perrors, workers, startCall,
          stopCall, resetCall, links, calls_left, at_stop, began, called>>

\* the requests, and the threads (one per request at most: line 193)
Rids == DOMAIN startCall
Tids == DOMAIN workers

\* ---------------------------------------------------------------- helpers
Range(s) == {s[i] : i \in DOMAIN s}

\* the pages of the site, and the sites over n pages: each page has a next
\* link to a page of the site or none
URLs == DOMAIN links
Sites(n) == [1..n -> (1..n) \cup {NoUrl}]

\* last_action values: a label, with the chapter number of the two f-strings
Action(kind) == [kind |-> kind, n |-> 0]
ActionN(kind, n) == [kind |-> kind, n |-> n]

InitialState ==
    [running |-> FALSE, current_url |-> NoUrl, chapter |-> 0,
     visited |-> << >>, last_action |-> Action("Idle")]

\* f"{num:03d}": the decimal digits of num, zero-padded to width 3
RECURSIVE Digits(_)
Digits(n) == IF n < 10 THEN <<n>> ELSE Append(Digits(n \div 10), n % 10)

Pad3(n) ==
    LET d == Digits(n)
    IN  IF Len(d) >= 3 THEN d
        ELSE [i \in 1..3 |-> IF i <= 3 - Len(d) THEN 0 ELSE d[i - (3 - Len(d))]]

ChapterKey(num) == Pad3(num)

\* int(c[:3]) of a listed key, as book() and read() compute it
RECURSIVE DigitsValue(_)
DigitsValue(d) ==
    IF Len(d) = 0 THEN 0
    ELSE 10 * DigitsValue(SubSeq(d, 1, Len(d) - 1)) + d[Len(d)]

KeyNumber(key) == DigitsValue(SubSeq(key, 1, 3))

\* the listing is in the order of the key strings "NNN.html": digit by digit,
\* a key that is a prefix of another one first ('.' sorts before the digits)
KeyBefore(a, b) ==
    \E i \in 1..(Len(a) + 1) :
        /\ \A j \in 1..(i - 1) : j <= Len(b) /\ a[j] = b[j]
        /\ IF i > Len(a) THEN Len(b) > Len(a)
           ELSE i <= Len(b) /\ a[i] < b[i]

\* the keys in the order of the listing: each key at the place given by the
\* number of keys before it
Listing(keys) ==
    LET ranked ==
            {<<Cardinality({k2 \in keys : KeyBefore(k2, k)}), k>> : k \in keys}
    IN  [i \in 1..Cardinality(keys) |-> (CHOOSE p \in ranked : p[1] = i - 1)[2]]

\* one answer of s3.list_objects_v2 holds at most this many keys
MaxKeys == 1000

\* s3.list_objects_v2(Bucket, Prefix=CHAPTER_PREFIX), called once: the first
\* page of the listing, the first MaxKeys keys in key order (the code never
\* asks for the next page)
list_objects_v2(objs) ==
    LET all == Listing({o.key : o \in objs})
    IN  SubSeq(all, 1, IF Len(all) <= MaxKeys THEN Len(all) ELSE MaxKeys)

\* list_chapters(): the sorted names of the listed keys
list_chapters == list_objects_v2(store)

ChapterNumbers == {KeyNumber(k) : k \in Range(list_chapters)}

\* s3.put_object of one chapter: overwrites the object of the same key
PutObject(objs, key, body) ==
    {o \in objs : o.key # key} \cup {[key |-> key, body |-> body]}

\* save_chapter(num, text)
save_chapter(objs, num, text) == PutObject(objs, ChapterKey(num), [src |-> text])

\* the dict primitives: d[k] = v, and `k in d`; d[k] raises KeyError when k
\* is missing
SetItem(d, k, v) == [x \in DOMAIN d \cup {k} |-> IF x = k THEN v ELSE d[x]]
HasKey(d, k) == k \in DOMAIN d

\* save_json(key, data): line 64, json.dumps(data) of the object as it is when
\* json.dumps runs; the put overwrites the whole object with that body
save_json(data) == <<data>>

\* a membership test that misses the most recently visited page
IsDuplicateButLast(url, visited) ==
    url \in Range(SubSeq(visited, 1, Len(visited) - 1))

\* `url in state["visited"]`
IsDuplicate(url, visited) == url \in Range(visited)

\* lines 128-129
DuplicateDetected(s) ==
    SetItem(SetItem(s, "running", FALSE),
            "last_action", Action("Stopped (duplicate detected)"))

\* the other ordering: the URL is recorded in visited before the fetch
FetchingRecordsVisit(s) ==
    [s EXCEPT !.visited = Append(s.visited, s.current_url),
              !.last_action = ActionN("Fetching chapter", s.chapter + 1)]

\* line 134 (reads "chapter")
Fetching(s) ==
    SetItem(s, "last_action", ActionN("Fetching chapter", s.chapter + 1))

\* line 140 (reads "chapter")
ChapterIncremented(s) == [s EXCEPT !.chapter = s.chapter + 1]

\* line 143 (reads "visited")
Visited(s, url) == [s EXCEPT !.visited = Append(s.visited, url)]

\* line 144
Advanced(s, next_url) == SetItem(s, "current_url", next_url)

\* the success path without line 144: the frontier is not advanced
SavedKeepsUrl(s, next_url) ==
    SetItem(s, "last_action", ActionN("Saved Chapter", s.chapter))

\* lines 144-145 (line 145 reads "chapter")
Saved(s, next_url) ==
    SetItem(Advanced(s, next_url),
            "last_action", ActionN("Saved Chapter", s.chapter))

\* lines 150-151
Completed(s) ==
    SetItem(SetItem(s, "running", FALSE), "last_action", Action("Completed"))

\* an except block that also drops the frontier
FailedDropsUrl(s) ==
    SetItem(SetItem(SetItem(s, "running", FALSE), "current_url", NoUrl),
            "last_action", Action("Error occurred"))

\* lines 165-166
Failed(s) ==
    SetItem(SetItem(s, "running", FALSE),
            "last_action", Action("Error occurred"))

\* lines 183-184: `if url: state["current_url"] = url`
Seeded(s, url) == IF url # NoUrl THEN SetItem(s, "current_url", url) ELSE s

\* line 189: `if not state["running"]` (reads "running")
MaySpawn(s) == ~s.running

\* lines 190-191
Started(s) ==
    SetItem(SetItem(s, "running", TRUE), "last_action", Action("Started"))

\* lines 199-200
Paused(s) ==
    SetItem(SetItem(s, "running", FALSE), "last_action", Action("Paused"))

\* line 210: state.clear()
Cleared(s) == << >>

\* the dict of lines 211-217
ResetValues ==
    [running |-> FALSE, current_url |-> NoUrl, chapter |-> 0,
     visited |-> << >>, last_action |-> Action("Reset")]

\* state.update(d)
Updated(s, d) ==
    [k \in DOMAIN s \cup DOMAIN d |-> IF k \in DOMAIN d THEN d[k] ELSE s[k]]

\* the dict built at lines 158-163 (reads "chapter"); `what` stands for
\* str(e), the call that raised (the time stamp is left out)
ErrorRecord(s, url, what) ==
    [chapter |-> s.chapter + 1, url |-> url, error |-> what]

\* what a thread holds between its steps: url and next_url are the locals of
\* worker(); num is the chapter number save_chapter was called with, rec the
\* dict built for errors.append, buf the body json.dumps built for the
\* put_object in flight
NoWorker ==
    [pc |-> "none", url |-> NoUrl, next_url |-> NoUrl, num |-> 0,
     rec |-> << >>, buf |-> << >>]
IdleStart == [pc |-> "idle", url |-> NoUrl, buf |-> << >>]
IdleStop == [pc |-> "idle", buf |-> << >>]
IdleReset == [pc |-> "idle", objs |-> << >>, buf |-> << >>]

LiveWorkers == {t \in Tids : workers[t].pc # "none"}

\* frames
bucket == <<store, pstate, perrors>>
requests == <<startCall, stopCall, resetCall>>
env == <<links, calls_left, at_stop, began, called>>

\* ---------------------------------------------------------------- initial
\* lines 43-51 and 68-69 on an empty bucket, a site of n pages and `calls`
\* requests to come
Fresh(n, calls) ==
    /\ state = InitialState
    /\ errors = << >>
    /\ store = {}
    /\ pstate = << >>
    /\ perrors = << >>
    /\ workers = [t \in 1..calls |-> NoWorker]
    /\ startCall = [r \in 1..calls |-> IdleStart]
    /\ stopCall = [r \in 1..calls |-> IdleStop]
    /\ resetCall = [r \in 1..calls |-> IdleReset]
    /\ links \in Sites(n)
    /\ calls_left = calls
    /\ at_stop = << >>
    /\ began = {}
    /\ called = {}

Init == Fresh(NumUrls, MaxCalls)

\* ---------------------------------------------------------------- worker
Goto(t, pc) == workers' = [workers EXCEPT ![t].pc = pc]
Exit(t) == workers' = [workers EXCEPT ![t] = NoWorker]

\* json.dumps(data) inside save_json: the body is built from the shared
\* object as it is now, and s3.put_object is entered with it
Call(t, pc, buf) == workers' = [workers EXCEPT ![t].pc = pc, ![t].buf = buf]
\* the call returns or raises
Return(t, pc) == workers' = [workers EXCEPT ![t].pc = pc, ![t].buf = << >>]

\* a loop test that does not look at the running flag
KeepGoingIgnoresFlag(s) == s.current_url # NoUrl

\* line 124: while state["running"] and state["current_url"]
KeepGoing(s) == s.running /\ s.current_url # NoUrl

\* line 124 raises KeyError: "running" is missing, or it is true and
\* "current_url" is missing
KeepGoingRaises(s) ==
    \/ ~HasKey(s, "running")
    \/ s.running /\ ~HasKey(s, "current_url")

\* the iteration that begins now finds current_url in visited
BeginsOnVisited(s) ==
    /\ ~KeepGoingRaises(s)
    /\ KeepGoing(s)
    /\ HasKey(s, "visited")
    /\ IsDuplicate(s.current_url, s.visited)

\* line 124; a KeyError here is outside the try: the thread dies
WorkerLoop(t) ==
    /\ workers[t].pc = "loop"
    /\ IF KeepGoingRaises(state) THEN Exit(t)
       ELSE IF KeepGoing(state) THEN Goto(t, "read")
       ELSE Exit(t)
    /\ began' = IF BeginsOnVisited(state) THEN began \cup {t} ELSE began \ {t}
    /\ UNCHANGED <<state, errors, bucket, requests, links, calls_left, at_stop,
                   called>>

\* line 125: url = state["current_url"]
WorkerRead(t) ==
    /\ workers[t].pc = "read"
    /\ IF HasKey(state, "current_url")
       THEN workers' = [workers EXCEPT ![t].pc = "dup",
                                       ![t].url = state.current_url]
       ELSE Exit(t)
    /\ UNCHANGED <<state, errors, bucket, requests, env>>

\* line 127: if url in state["visited"]
WorkerDup(t) ==
    /\ workers[t].pc = "dup"
    /\ IF ~HasKey(state, "visited") THEN Exit(t)
       ELSE IF IsDuplicate(workers[t].url, state.visited) THEN Goto(t, "halt")
       ELSE Goto(t, "fetching")
    /\ UNCHANGED <<state, errors, bucket, requests, env>>

\* lines 128-130: the two writes, and save_json is entered
WorkerHalt(t) ==
    /\ workers[t].pc = "halt"
    /\ state' = DuplicateDetected(state)
    /\ Goto(t, "halt_dumps")
    /\ UNCHANGED <<errors, bucket, requests, env>>

\* line 130, inside save_json: json.dumps(state), put_object is entered
WorkerHaltDumps(t) ==
    /\ workers[t].pc = "halt_dumps"
    /\ Call(t, "halt_put", save_json(state))
    /\ UNCHANGED <<state, errors, bucket, requests, env>>

\* line 130 returns; line 131: break
WorkerHaltPut(t) ==
    /\ workers[t].pc = "halt_put"
    /\ pstate' = workers[t].buf
    /\ Exit(t)
    /\ UNCHANGED <<state, errors, store, perrors, requests, env>>

\* line 130 raises, outside the try: the thread dies
WorkerHaltPutFails(t) ==
    /\ workers[t].pc = "halt_put"
    /\ Exit(t)
    /\ UNCHANGED <<state, errors, bucket, requests, env>>

\* lines 134-135: the write, and save_json is entered; a KeyError of the read
\* of "chapter" is inside the try
WorkerFetching(t) ==
    /\ workers[t].pc = "fetching"
    /\ IF HasKey(state, "chapter")
       THEN state' = Fetching(state) /\ Goto(t, "fetching_dumps")
       ELSE state' = state /\ Goto(t, "except_key")
    /\ UNCHANGED <<errors, bucket, requests, env>>

\* line 135, inside save_json: json.dumps(state), put_object is entered
WorkerFetchingDumps(t) ==
    /\ workers[t].pc = "fetching_dumps"
    /\ Call(t, "fetching_put", save_json(state))
    /\ UNCHANGED <<state, errors, bucket, requests, env>>

\* line 135 returns
WorkerFetchingPut(t) ==
    /\ workers[t].pc = "fetching_put"
    /\ pstate' = workers[t].buf
    /\ Return(t, "scrape")
    /\ UNCHANGED <<state, errors, store, perrors, requests, env>>

\* line 135 raises
WorkerFetchingPutFails(t) ==
    /\ workers[t].pc = "fetching_put"
    /\ Return(t, "except_persist")
    /\ UNCHANGED <<state, errors, bucket, requests, env>>

\* line 137: raw, next_url = scrape(url), the page answers
WorkerScrape(t) ==
    /\ workers[t].pc = "scrape"
    /\ workers[t].url \in URLs
    /\ workers' = [workers EXCEPT ![t].pc = "translate",
                                  ![t].next_url = links[workers[t].url]]
    /\ UNCHANGED <<state, errors, bucket, requests, env>>

\* line 137: scrape raises (request error, "Content not found")
WorkerScrapeFails(t) ==
    /\ workers[t].pc = "scrape"
    /\ Goto(t, "except_scrape")
    /\ UNCHANGED <<state, errors, bucket, requests, env>>

\* line 138: translated = translate(raw)
WorkerTranslate(t) ==
    /\ workers[t].pc = "translate"
    /\ Goto(t, "save")
    /\ UNCHANGED <<state, errors, bucket, requests, env>>

\* line 138: translate raises
WorkerTranslateFails(t) ==
    /\ workers[t].pc = "translate"
    /\ Goto(t, "except_translate")
    /\ UNCHANGED <<state, errors, bucket, requests, env>>

\* lines 140-141: state["chapter"] += 1, and save_chapter is called with
\* state["chapter"]; a KeyError of the read of "chapter" is inside the try
WorkerSave(t) ==
    /\ workers[t].pc = "save"
    /\ IF HasKey(state, "chapter")
       THEN /\ state' = ChapterIncremented(state)
            /\ workers' = [workers EXCEPT ![t].pc = "save_put",
                                          ![t].num = state'.chapter]
       ELSE state' = state /\ Goto(t, "except_key")
    /\ UNCHANGED <<errors, bucket, requests, env>>

\* line 141 returns: the chapter object is in the bucket
WorkerSavePut(t) ==
    /\ workers[t].pc = "save_put"
    /\ store' = save_chapter(store, workers[t].num, workers[t].url)
    /\ workers' = [workers EXCEPT ![t].pc = "visit", ![t].num = 0]
    /\ UNCHANGED <<state, errors, pstate, perrors, requests, env>>

\* line 141 raises
WorkerSaveFails(t) ==
    /\ workers[t].pc = "save_put"
    /\ workers' = [workers EXCEPT ![t].pc = "except_save", ![t].num = 0]
    /\ UNCHANGED <<state, errors, bucket, requests, env>>

\* line 143: state["visited"].append(url)
WorkerVisit(t) ==
    /\ workers[t].pc = "visit"
    /\ IF HasKey(state, "visited")
       THEN state' = Visited(state, workers[t].url) /\ Goto(t, "commit")
       ELSE state' = state /\ Goto(t, "except_key")
    /\ UNCHANGED <<errors, bucket, requests, env>>

\* lines 144-147: the two writes, and save_json is entered; when the read of
\* "chapter" at line 145 raises KeyError, line 144 has been executed
WorkerCommit(t) ==
    /\ workers[t].pc = "commit"
    /\ IF HasKey(state, "chapter")
       THEN /\ state' = Saved(state, workers[t].next_url)
            /\ Goto(t, "commit_dumps")
       ELSE /\ state' = Advanced(state, workers[t].next_url)
            /\ Goto(t, "except_key")
    /\ UNCHANGED <<errors, bucket, requests, env>>

\* line 147, inside save_json: json.dumps(state), put_object is entered
WorkerCommitDumps(t) ==
    /\ workers[t].pc = "commit_dumps"
    /\ Call(t, "commit_put", save_json(state))
    /\ UNCHANGED <<state, errors, bucket, requests, env>>

\* line 147 returns
WorkerCommitPut(t) ==
    /\ workers[t].pc = "commit_put"
    /\ pstate' = workers[t].buf
    /\ Return(t, "check_next")
    /\ UNCHANGED <<state, errors, store, perrors, requests, env>>

\* line 147 raises
WorkerCommitPutFails(t) ==
    /\ workers[t].pc = "commit_put"
    /\ Return(t, "except_persist")
    /\ UNCHANGED <<state, errors, bucket, requests, env>>

\* lines 149-155: if not next_url: the two writes and save_json is entered;
\* else time.sleep(2) and back to the loop test
WorkerCheckNext(t) ==
    /\ workers[t].pc = "check_next"
    /\ IF workers[t].next_url = NoUrl
       THEN /\ state' = Completed(state)
            /\ Goto(t, "completed_dumps")
       ELSE /\ workers' = [workers EXCEPT ![t] = [NoWorker EXCEPT !.pc = "loop"]]
            /\ UNCHANGED state
    /\ UNCHANGED <<errors, bucket, requests, env>>

\* line 152, inside save_json: json.dumps(state), put_object is entered
WorkerCompletedDumps(t) ==
    /\ workers[t].pc = "completed_dumps"
    /\ Call(t, "completed_put", save_json(state))
    /\ UNCHANGED <<state, errors, bucket, requests, env>>

\* line 152 returns; line 153: break
WorkerCompletedPut(t) ==
    /\ workers[t].pc = "completed_put"
    /\ pstate' = workers[t].buf
    /\ Exit(t)
    /\ UNCHANGED <<state, errors, store, perrors, requests, env>>

\* line 152 raises
WorkerCompletedPutFails(t) ==
    /\ workers[t].pc = "completed_put"
    /\ Return(t, "except_persist")
    /\ UNCHANGED <<state, errors, bucket, requests, env>>

\* what raised inside the try: scrape, translate, the put_object of the
\* chapter ("save"), a put_object of state.json ("persist"), or a read of a
\* key that /reset has cleared ("key")
ExceptKinds == {"scrape", "translate", "save", "persist", "key"}

\* lines 158-162: the dict is built, "chapter" read first; str(e) and
\* datetime.utcnow() are called before the append.  A KeyError here is
\* inside the handler: the thread dies
WorkerExcept(t) ==
    /\ \E what \in ExceptKinds :
         /\ workers[t].pc = "except_" \o what
         /\ IF HasKey(state, "chapter")
            THEN workers' = [workers EXCEPT
                     ![t].pc = "except_append",
                     ![t].rec = <<ErrorRecord(state, workers[t].url, what)>>]
            ELSE Exit(t)
    /\ UNCHANGED <<state, errors, bucket, requests, env>>

\* lines 158-164: errors.append(the dict), and save_json is entered
WorkerExceptAppend(t) ==
    /\ workers[t].pc = "except_append"
    /\ errors' = Append(errors, workers[t].rec[1])
    /\ workers' = [workers EXCEPT ![t].pc = "except_dumps", ![t].rec = << >>]
    /\ UNCHANGED <<state, bucket, requests, env>>

\* line 164, inside save_json: json.dumps(errors), put_object is entered
WorkerExceptDumps(t) ==
    /\ workers[t].pc = "except_dumps"
    /\ Call(t, "except_put", save_json(errors))
    /\ UNCHANGED <<state, errors, bucket, requests, env>>

\* line 164 returns
WorkerExceptPut(t) ==
    /\ workers[t].pc = "except_put"
    /\ perrors' = workers[t].buf
    /\ Return(t, "except2")
    /\ UNCHANGED <<state, errors, store, pstate, requests, env>>

\* line 164 raises, inside the handler: the thread dies
WorkerExceptPutFails(t) ==
    /\ workers[t].pc = "except_put"
    /\ Exit(t)
    /\ UNCHANGED <<state, errors, bucket, requests, env>>

\* lines 165-167: the two writes, and save_json is entered
WorkerExcept2(t) ==
    /\ workers[t].pc = "except2"
    /\ state' = Failed(state)
    /\ Goto(t, "except2_dumps")
    /\ UNCHANGED <<errors, bucket, requests, env>>

\* line 167, inside save_json: json.dumps(state), put_object is entered
WorkerExcept2Dumps(t) ==
    /\ workers[t].pc = "except2_dumps"
    /\ Call(t, "except2_put", save_json(state))
    /\ UNCHANGED <<state, errors, bucket, requests, env>>

\* line 167 returns; line 168: break
WorkerExcept2Put(t) ==
    /\ workers[t].pc = "except2_put"
    /\ pstate' = workers[t].buf
    /\ Exit(t)
    /\ UNCHANGED <<state, errors, store, perrors, requests, env>>

\* line 167 raises, inside the handler: the thread dies
WorkerExcept2PutFails(t) ==
    /\ workers[t].pc = "except2_put"
    /\ Exit(t)
    /\ UNCHANGED <<state, errors, bucket, requests, env>>

\* the steps of an iteration in which nothing raises
WorkerRunStep(t) ==
    \/ WorkerLoop(t)
    \/ WorkerRead(t)
    \/ WorkerDup(t)
    \/ WorkerHalt(t)
    \/ WorkerHaltDumps(t)
    \/ WorkerHaltPut(t)
    \/ WorkerFetching(t)
    \/ WorkerFetchingDumps(t)
    \/ WorkerFetchingPut(t)
    \/ WorkerScrape(t)
    \/ WorkerTranslate(t)
    \/ WorkerSave(t)
    \/ WorkerSavePut(t)
    \/ WorkerVisit(t)
    \/ WorkerCommit(t)
    \/ WorkerCommitDumps(t)
    \/ WorkerCommitPut(t)
    \/ WorkerCheckNext(t)
    \/ WorkerCompletedDumps(t)
    \/ WorkerCompletedPut(t)

\* the except block
WorkerExceptStep(t) ==
    \/ WorkerExcept(t)
    \/ WorkerExceptAppend(t)
    \/ WorkerExceptDumps(t)
    \/ WorkerExceptPut(t)
    \/ WorkerExcept2(t)
    \/ WorkerExcept2Dumps(t)
    \/ WorkerExcept2Put(t)

WorkerStep(t) ==
    \/ WorkerRunStep(t)
    \/ WorkerExceptStep(t)

\* scrape, translate or the put_object of the chapter raises
WorkerFault(t) ==
    \/ WorkerScrapeFails(t)
    \/ WorkerTranslateFails(t)
    \/ WorkerSaveFails(t)

\* a put_object of state.json or errors.json raises
WorkerPutFault(t) ==
    \/ WorkerHaltPutFails(t)
    \/ WorkerFetchingPutFails(t)
    \/ WorkerCommitPutFails(t)
    \/ WorkerCompletedPutFails(t)
    \/ WorkerExceptPutFails(t)
    \/ WorkerExcept2PutFails(t)

\* ---------------------------------------------------------------- /start
\* lines 182-184: a request arrives at any moment, whatever else is in
\* progress; the form's url (absent or empty: NoUrl) seeds current_url
StartBegin(url) ==
    /\ calls_left > 0
    /\ calls_left' = calls_left - 1
    /\ state' = Seeded(state, url)
    /\ startCall' = [startCall EXCEPT ![calls_left] =
                        [IdleStart EXCEPT !.pc = "check_url", !.url = url]]
    /\ called' = IF HasKey(state, "running") /\ state.running
                 THEN called \cup {calls_left} ELSE called
    /\ UNCHANGED <<errors, bucket, workers, stopCall, resetCall, links, at_stop,
                   began>>

\* lines 186-187; a KeyError ends the request with the exception
StartCheckUrl(r) ==
    /\ startCall[r].pc = "check_url"
    /\ startCall' = [startCall EXCEPT ![r] =
                        IF ~HasKey(state, "current_url") THEN IdleStart
                        ELSE IF state.current_url = NoUrl THEN IdleStart
                        ELSE [startCall[r] EXCEPT !.pc = "check_running"]]
    /\ UNCHANGED <<state, errors, bucket, workers, stopCall, resetCall, env>>

\* line 189; a KeyError ends the request with the exception
StartCheckRunning(r) ==
    /\ startCall[r].pc = "check_running"
    /\ startCall' = [startCall EXCEPT ![r] =
                        IF ~HasKey(state, "running") THEN IdleStart
                        ELSE IF MaySpawn(state)
                        THEN [startCall[r] EXCEPT !.pc = "set_running"]
                        ELSE IdleStart]
    /\ UNCHANGED <<state, errors, bucket, workers, stopCall, resetCall, env>>

\* lines 190-192: the two writes, and save_json is entered
StartSetRunning(r) ==
    /\ startCall[r].pc = "set_running"
    /\ state' = Started(state)
    /\ startCall' = [startCall EXCEPT ![r].pc = "dumps"]
    /\ UNCHANGED <<errors, bucket, workers, stopCall, resetCall, env>>

\* line 192, inside save_json: json.dumps(state), put_object is entered
StartDumps(r) ==
    /\ startCall[r].pc = "dumps"
    /\ startCall' = [startCall EXCEPT ![r].pc = "put",
                                      ![r].buf = save_json(state)]
    /\ UNCHANGED <<state, errors, bucket, workers, stopCall, resetCall, env>>

\* line 192 returns
StartPut(r) ==
    /\ startCall[r].pc = "put"
    /\ pstate' = startCall[r].buf
    /\ startCall' = [startCall EXCEPT ![r].pc = "spawn", ![r].buf = << >>]
    /\ UNCHANGED <<state, errors, store, perrors, workers, stopCall, resetCall,
                   env>>

\* line 192 raises: the request ends with the exception, no thread is started
StartPutFails(r) ==
    /\ startCall[r].pc = "put"
    /\ startCall' = [startCall EXCEPT ![r] = IdleStart]
    /\ UNCHANGED <<state, errors, bucket, workers, stopCall, resetCall, env>>

\* line 193: threading.Thread(target=worker, daemon=True).start(), a new
\* thread whatever threads there are
StartSpawn(r) ==
    /\ startCall[r].pc = "spawn"
    /\ workers' = [workers EXCEPT ![r].pc = "loop"]
    /\ startCall' = [startCall EXCEPT ![r] = IdleStart]
    /\ UNCHANGED <<state, errors, bucket, stopCall, resetCall, env>>

\* ---------------------------------------------------------------- /stop
\* lines 199-201: a request arrives at any moment; the two writes, and
\* save_json is entered
StopRequest ==
    /\ calls_left > 0
    /\ calls_left' = calls_left - 1
    /\ state' = Paused(state)
    /\ stopCall' = [stopCall EXCEPT ![calls_left] =
                       [IdleStop EXCEPT !.pc = "dumps"]]
    /\ UNCHANGED <<errors, bucket, workers, startCall, resetCall, links, began,
                   called>>

Stop == StopRequest /\ UNCHANGED at_stop

\* the same request, observed: the history variable keeps the store as it was
StopObserved ==
    /\ StopRequest
    /\ at_stop' = IF at_stop = << >> /\ LiveWorkers # {} THEN <<store>> ELSE at_stop

\* line 201, inside save_json: json.dumps(state), put_object is entered
StopDumps(r) ==
    /\ stopCall[r].pc = "dumps"
    /\ stopCall' = [stopCall EXCEPT ![r] = [pc |-> "put", buf |-> save_json(state)]]
    /\ UNCHANGED <<state, errors, bucket, workers, startCall, resetCall, env>>

\* line 201 returns
StopPut(r) ==
    /\ stopCall[r].pc = "put"
    /\ pstate' = stopCall[r].buf
    /\ stopCall' = [stopCall EXCEPT ![r] = IdleStop]
    /\ UNCHANGED <<state, errors, store, perrors, workers, startCall, resetCall,
                   env>>

\* line 201 raises
StopPutFails(r) ==
    /\ stopCall[r].pc = "put"
    /\ stopCall' = [stopCall EXCEPT ![r] = IdleStop]
    /\ UNCHANGED <<state, errors, bucket, workers, startCall, resetCall, env>>

\* ---------------------------------------------------------------- /reset
\* line 206: a request arrives at any moment;
\* objs = s3.list_objects_v2(...), one page of the listing
ResetBegin ==
    /\ calls_left > 0
    /\ calls_left' = calls_left - 1
    /\ LET page == list_objects_v2(store)
       IN  resetCall' = [resetCall EXCEPT ![calls_left] =
                            [IdleReset EXCEPT
                                !.pc = IF page = << >> THEN "clear" ELSE "delete",
                                !.objs = page]]
    /\ UNCHANGED <<state, errors, bucket, workers, startCall, stopCall, links,
                   at_stop, began, called>>

\* line 206 raises: the request ends with the exception, nothing is changed
ResetListFails ==
    /\ calls_left > 0
    /\ calls_left' = calls_left - 1
    /\ UNCHANGED <<state, errors, bucket, workers, requests, links, at_stop,
                   began, called>>

\* lines 207-208: one delete_object returns, the next listed key is up
ResetDelete(r) ==
    /\ resetCall[r].pc = "delete"
    /\ LET k == Head(resetCall[r].objs)
           rest == Tail(resetCall[r].objs)
       IN  /\ store' = {o \in store : o.key # k}
           /\ resetCall' = [resetCall EXCEPT
                               ![r].pc = IF rest = << >> THEN "clear" ELSE "delete",
                               ![r].objs = rest]
    /\ UNCHANGED <<state, errors, pstate, perrors, workers, startCall, stopCall,
                   env>>

\* line 208 raises: the request ends with the exception
ResetDeleteFails(r) ==
    /\ resetCall[r].pc = "delete"
    /\ resetCall' = [resetCall EXCEPT ![r] = IdleReset]
    /\ UNCHANGED <<state, errors, bucket, workers, startCall, stopCall, env>>

\* line 210: state.clear()
ResetClear(r) ==
    /\ resetCall[r].pc = "clear"
    /\ state' = Cleared(state)
    /\ resetCall' = [resetCall EXCEPT ![r].pc = "update"]
    /\ UNCHANGED <<errors, bucket, workers, startCall, stopCall, env>>

\* lines 211-217: state.update({...})
ResetUpdate(r) ==
    /\ resetCall[r].pc = "update"
    /\ state' = Updated(state, ResetValues)
    /\ resetCall' = [resetCall EXCEPT ![r].pc = "clear_errors"]
    /\ UNCHANGED <<errors, bucket, workers, startCall, stopCall, env>>

\* lines 218-220: errors.clear(), and save_json(STATE_KEY, state) is entered
ResetClearErrors(r) ==
    /\ resetCall[r].pc = "clear_errors"
    /\ errors' = << >>
    /\ resetCall' = [resetCall EXCEPT ![r].pc = "dumps_state"]
    /\ UNCHANGED <<state, bucket, workers, startCall, stopCall, env>>

\* line 220, inside save_json: json.dumps(state), put_object is entered
ResetDumpsState(r) ==
    /\ resetCall[r].pc = "dumps_state"
    /\ resetCall' = [resetCall EXCEPT ![r].pc = "put_state",
                                      ![r].buf = save_json(state)]
    /\ UNCHANGED <<state, errors, bucket, workers, startCall, stopCall, env>>

\* line 220 returns, and save_json(ERROR_KEY, errors) of line 221 is entered
ResetSaveState(r) ==
    /\ resetCall[r].pc = "put_state"
    /\ pstate' = resetCall[r].buf
    /\ resetCall' = [resetCall EXCEPT ![r].pc = "dumps_errors", ![r].buf = << >>]
    /\ UNCHANGED <<state, errors, store, perrors, workers, startCall, stopCall,
                   env>>

\* line 221, inside save_json: json.dumps(errors), put_object is entered
ResetDumpsErrors(r) ==
    /\ resetCall[r].pc = "dumps_errors"
    /\ resetCall' = [resetCall EXCEPT ![r].pc = "put_errors",
                                      ![r].buf = save_json(errors)]
    /\ UNCHANGED <<state, errors, bucket, workers, startCall, stopCall, env>>

\* line 221 returns
ResetSaveErrors(r) ==
    /\ resetCall[r].pc = "put_errors"
    /\ perrors' = resetCall[r].buf
    /\ resetCall' = [resetCall EXCEPT ![r] = IdleReset]
    /\ UNCHANGED <<state, errors, store, pstate, workers, startCall, stopCall,
                   env>>

\* line 220 or line 221 raises: the request ends with the exception
ResetSaveFails(r) ==
    /\ resetCall[r].pc \in {"put_state", "put_errors"}
    /\ resetCall' = [resetCall EXCEPT ![r] = IdleReset]
    /\ UNCHANGED <<state, errors, bucket, workers, startCall, stopCall, env>>

\* ---------------------------------------------------------------- system
StartContinue(r) ==
    \/ StartCheckUrl(r)
    \/ StartCheckRunning(r)
    \/ StartSetRunning(r)
    \/ StartDumps(r)
    \/ StartPut(r)
    \/ StartSpawn(r)

StartStep ==
    \/ \E url \in URLs \cup {NoUrl} : StartBegin(url)
    \/ \E r \in Rids : StartContinue(r)

StopContinue(r) ==
    \/ StopDumps(r)
    \/ StopPut(r)

StopStep ==
    \/ Stop
    \/ \E r \in Rids : StopContinue(r)

ResetContinue(r) ==
    \/ ResetDelete(r)
    \/ ResetClear(r)
    \/ ResetUpdate(r)
    \/ ResetClearErrors(r)
    \/ ResetDumpsState(r)
    \/ ResetSaveState(r)
    \/ ResetDumpsErrors(r)
    \/ ResetSaveErrors(r)

ResetStep ==
    \/ ResetBegin
    \/ \E r \in Rids : ResetContinue(r)

\* a call to the bucket made by a request raises
RequestFault ==
    \/ \E r \in Rids : StartPutFails(r)
    \/ \E r \in Rids : StopPutFails(r)
    \/ ResetListFails
    \/ \E r \in Rids : ResetDeleteFails(r)
    \/ \E r \in Rids : ResetSaveFails(r)

\* Every interleaving of the workers, the three routes and the failures.
Next ==
    \/ \E t \in Tids : WorkerStep(t)
    \/ \E t \in Tids : WorkerFault(t)
    \/ \E t \in Tids : WorkerPutFault(t)
    \/ StartStep
    \/ StopStep
    \/ ResetStep
    \/ RequestFault

Spec == Init /\ [][Next]_vars

\* the control requests have all returned
StartIdle == \A r \in Rids : startCall[r].pc = "idle"
StopIdle == \A r \in Rids : stopCall[r].pc = "idle"
ResetIdle == \A r \in Rids : resetCall[r].pc = "idle"

\* The requests of a run with a pause, and its site.
WideCalls == 3
WideUrls == 1

InitWide == Fresh(WideUrls, WideCalls)

\* Sequential operation: the operator issues a request only when nothing is
\* in flight (no worker alive, no request in progress); scrape, translate and
\* the put of a chapter may raise, the writes of state.json and errors.json
\* and the deletes go through.
SeqUrls == 2
SeqCalls == 2

Quiescent ==
    /\ LiveWorkers = {}
    /\ StartIdle
    /\ StopIdle
    /\ ResetIdle

InitSeq == Fresh(SeqUrls, SeqCalls)

NextSeq ==
    \/ \E t \in Tids : WorkerStep(t)
    \/ \E t \in Tids : WorkerFault(t)
    \/ Quiescent /\ \E url \in URLs \cup {NoUrl} : StartBegin(url)
    \/ \E r \in Rids : StartContinue(r)
    \/ Quiescent /\ Stop
    \/ \E r \in Rids : StopContinue(r)
    \/ Quiescent /\ ResetBegin
    \/ \E r \in Rids : ResetContinue(r)

SpecSeq == InitSeq /\ [][NextSeq]_vars

\* One run: a single /start on the initial state, nothing raises, the
\* scheduler keeps running the handler and the worker thread.
RunUrls == 3

InitRun == Fresh(RunUrls, 1)

NextRun ==
    \/ \E t \in Tids : WorkerRunStep(t)
    \/ StartStep

SpecRun ==
    /\ InitRun
    /\ [][NextRun]_vars
    /\ WF_vars(\E t \in Tids : WorkerRunStep(t))
    /\ WF_vars(\E r \in Rids : StartContinue(r))

\* One run and its cancellation: a single /start first; once it has been
\* issued, /stop requests at any moment, and no further /start; scrape,
\* translate and every put_object may raise.  Every thread that can take a
\* step eventually takes one: a thread that is in a call gets its return or
\* its exception.
StopUrls == 2
StopCalls == 2

InitStop == Fresh(StopUrls, StopCalls)

StartIssued == calls_left < StopCalls

NextStop ==
    \/ \E t \in Tids : WorkerStep(t)
    \/ \E t \in Tids : WorkerFault(t)
    \/ \E t \in Tids : WorkerPutFault(t)
    \/ calls_left = StopCalls /\ \E url \in URLs \cup {NoUrl} : StartBegin(url)
    \/ \E r \in Rids : StartContinue(r)
    \/ \E r \in Rids : StartPutFails(r)
    \/ StartIssued /\ StopObserved
    \/ \E r \in Rids : StopContinue(r)
    \/ \E r \in Rids : StopPutFails(r)

SpecStop ==
    /\ InitStop
    /\ [][NextStop]_vars
    /\ WF_vars(\/ \E t \in Tids :
                      WorkerStep(t) \/ WorkerFault(t) \/ WorkerPutFault(t)
               \/ \E r \in Rids :
                      \/ StartContinue(r) \/ StartPutFails(r)
                      \/ StopContinue(r) \/ StopPutFails(r))

\* ---------------------------------------------------------------- restart
\* load_json(key, default): the object's content (json round trip of a dict
\* of bool, int, str, None and list of str); default when the key is absent,
\* and when get_object or the parse raises for another reason (lines 57-58)
load_json(obj, default, raises) ==
    IF obj = << >> \/ raises THEN default ELSE obj[1]

\* lines 43-49 and 68: the module-level dict, then state.update(loaded)
Loaded(p) ==
    [k \in DOMAIN InitialState |-> IF k \in DOMAIN p THEN p[k] ELSE InitialState[k]]

\* The process dies and is started again: every thread and every request in
\* progress is gone, the module is imported afresh (lines 43-51, 68-69), the
\* bucket is as it was.
Restart ==
    /\ calls_left > 0
    /\ calls_left' = calls_left - 1
    /\ \E raises \in BOOLEAN :
         state' = Loaded(load_json(pstate, << >>, raises))
    /\ \E raises \in BOOLEAN :
         errors' = load_json(perrors, << >>, raises)
    /\ workers' = [t \in Tids |-> NoWorker]
    /\ startCall' = [r \in Rids |-> IdleStart]
    /\ stopCall' = [r \in Rids |-> IdleStop]
    /\ resetCall' = [r \in Rids |-> IdleReset]
    /\ began' = {}
    /\ called' = {}
    /\ UNCHANGED <<bucket, links, at_stop>>

\* A run, a crash during it, and the operator's requests after the restart:
\* one /start with a URL, then the process dies while the worker thread is
\* alive, then /start without a URL and /stop requests at any moment.
RestartUrls == 2
RestartCalls == 4

InitRestart == Fresh(RestartUrls, RestartCalls)

Restarted == calls_left < RestartCalls - 1

NextRestart ==
    \/ \E t \in Tids : WorkerStep(t)
    \/ \E t \in Tids : WorkerFault(t)
    \/ calls_left = RestartCalls /\ \E url \in URLs : StartBegin(url)
    \/ \E r \in Rids : StartContinue(r)
    \/ calls_left = RestartCalls - 1 /\ LiveWorkers # {} /\ Restart
    \/ Restarted /\ StartBegin(NoUrl)
    \/ Restarted /\ Stop
    \/ \E r \in Rids : StopContinue(r)

SpecRestart == InitRestart /\ [][NextRestart]_vars

\* A run that is paused and resumed: /start with a URL; /stop at any moment
\* once the worker thread is alive; then /start without a URL at any moment;
\* scrape, translate and save_chapter may raise; no /reset.
NextStartStop ==
    \/ \E t \in Tids : WorkerStep(t)
    \/ \E t \in Tids : WorkerFault(t)
    \/ calls_left = WideCalls /\ \E url \in URLs : StartBegin(url)
    \/ calls_left = WideCalls - 1 /\ LiveWorkers # {} /\ Stop
    \/ 0 < calls_left /\ calls_left < WideCalls - 1 /\ StartBegin(NoUrl)
    \/ \E r \in Rids : StartContinue(r)
    \/ \E r \in Rids : StopContinue(r)

SpecStartStop == InitWide /\ [][NextStartStop]_vars

\* One run and its reset: a single /start with a URL first; once it has been
\* issued, /reset requests at any moment, and no further /start or /stop.
ResetRunUrls == 2
ResetRunCalls == 2

InitResetRun == Fresh(ResetRunUrls, ResetRunCalls)

NextResetRun ==
    \/ \E t \in Tids : WorkerStep(t)
    \/ \E t \in Tids : WorkerFault(t)
    \/ calls_left = ResetRunCalls /\ \E url \in URLs : StartBegin(url)
    \/ \E r \in Rids : StartContinue(r)
    \/ calls_left < ResetRunCalls /\ ResetBegin
    \/ \E r \in Rids : ResetContinue(r)

SpecResetRun == InitResetRun /\ [][NextResetRun]_vars

\* A book of more than one page of the listing, and its reset: the run over
\* a chain of MaxKeys + 1 pages has completed (every chapter stored, the
\* state of line 152 in memory and in state.json, no error), and the operator
\* resets the book; the listing and every delete go through.
BookPages == MaxKeys + 1

BookSite == [u \in 1..BookPages |-> IF u < BookPages THEN u + 1 ELSE NoUrl]

BookState ==
    [running |-> FALSE, current_url |-> NoUrl, chapter |-> BookPages,
     visited |-> [i \in 1..BookPages |-> i], last_action |-> Action("Completed")]

InitBook ==
    /\ state = BookState
    /\ errors = << >>
    /\ store = {[key |-> ChapterKey(k), body |-> [src |-> k]] : k \in 1..BookPages}
    /\ pstate = <<BookState>>
    /\ perrors = << >>
    /\ workers = [t \in 1..1 |-> NoWorker]
    /\ startCall = [r \in 1..1 |-> IdleStart]
    /\ stopCall = [r \in 1..1 |-> IdleStop]
    /\ resetCall = [r \in 1..1 |-> IdleReset]
    /\ links = BookSite
    /\ calls_left = 1
    /\ at_stop = << >>
    /\ began = {}
    /\ called = {}

NextBook ==
    \/ Quiescent /\ ResetBegin
    \/ \E r \in Rids : ResetContinue(r)

SpecBook == InitBook /\ [][NextBook]_vars

\* ---------------------------------------------------------------- claims
\* d.get(k) as a sequence: <<d[k]>>, or << >> when the key is missing
Get(d, k) == IF k \in DOMAIN d THEN <<d[k]>> ELSE << >>

\* The chapter chain from page u: the pages reached by following next links
\* until a page has none; << >> when the links run into a cycle.
RECURSIVE ChainFrom(_, _)
ChainFrom(u, seen) ==
    IF u = NoUrl THEN seen
    ELSE IF u \in Range(seen) THEN << >>
    ELSE ChainFrom(links[u], Append(seen, u))

Chain(u) == ChainFrom(u, << >>)

ChaptersOf(chain) ==
    {[key |-> ChapterKey(k), body |-> [src |-> chain[k]]] : k \in 1..Len(chain)}

RunCompleted(chain) ==
    /\ LiveWorkers = {}
    /\ store = ChaptersOf(chain)
    /\ ChapterNumbers = 1..Len(chain)
    /\ state.chapter = Len(chain)
    /\ state.running = FALSE
    /\ state.current_url = NoUrl
    /\ state.last_action = Action("Completed")

\* C1: a /start with seed u on the initial state, where the chain from u is
\* acyclic with N pages and nothing raises, leads to a state that lasts, with
\* no worker alive, exactly the chapters 1..N of the chain stored, chapter == N,
\* running == False, current_url == None and last_action == "Completed".
C1_RunCompletes ==
    \A u \in 1..RunUrls :
        ((\E r \in Rids : startCall[r].pc = "check_url" /\ startCall[r].url = u)
         /\ Chain(u) # << >>)
            ~> [](RunCompleted(Chain(u)))

C1_Witness ==
    /\ Len(state.visited) = RunUrls
    /\ state.chapter = RunUrls
    /\ RunCompleted(Chain(state.visited[1]))

\* C2: at most one worker thread is alive.
C2_AtMostOneWorker == Cardinality(LiveWorkers) <= 1

\* C3: a thread that has begun its iteration with current_url in visited (it
\* passed the loop test of line 124 on such a state) does not get to call
\* scrape, translate or save_chapter in that iteration.
C3_CycleSafety ==
    \A t \in began : workers[t].pc \notin {"scrape", "translate", "save_put"}

\* C4: in sequential operation with the writes of state.json and errors.json
\* going through, when scrape or translate raises while the worker attempts
\* chapter k (announced as "Fetching chapter k"): the counter is k-1 and stays
\* so, no chapter object is written, exactly one error record (chapter k, the
\* failing URL) is appended and persisted, and the thread ends with
\* running == False and current_url still the URL that failed.
LastError == errors[Len(errors)]

C4_AfterFault ==
    (/\ Quiescent
     /\ state.last_action = Action("Error occurred")
     /\ Len(errors) > 0
     /\ LastError.error \in {"scrape", "translate"})
    => (/\ state.running = FALSE
        /\ state.current_url = LastError.url
        /\ state.chapter = LastError.chapter - 1)

C4_FaultSteps ==
    \A t \in Tids :
        LET w == workers[t]
            w2 == workers'[t]
        IN  /\ (/\ w.pc \in {"scrape", "translate"}
                /\ w2.pc \in {"except_scrape", "except_translate"})
                => (/\ state.last_action =
                         ActionN("Fetching chapter", state.chapter + 1)
                    /\ state.current_url = w.url
                    /\ state' = state /\ store' = store /\ errors' = errors)
            /\ (w.pc \in {"except_scrape", "except_translate"} /\ w2 # w)
                => (/\ w2.pc = "except_append"
                    /\ Len(w2.rec) = 1
                    /\ w2.rec[1].chapter = state.chapter + 1
                    /\ w2.rec[1].url = w.url
                    /\ state' = state /\ store' = store /\ errors' = errors)
            /\ (w.pc = "except_append" /\ w2 # w)
                => (/\ w2.pc = "except_dumps"
                    /\ errors' = Append(errors, w.rec[1])
                    /\ state' = state /\ store' = store)
            /\ (w.pc = "except_dumps" /\ w2 # w)
                => (/\ w2.pc = "except_put"
                    /\ w2.buf = <<errors>>
                    /\ errors' = errors /\ store' = store /\ state' = state)
            /\ (w.pc = "except_put" /\ w2 # w)
                => (/\ w2.pc = "except2"
                    /\ perrors' = <<errors>>
                    /\ errors' = errors /\ store' = store /\ state' = state)
            /\ (w.pc = "except2" /\ w2 # w)
                => (/\ w2.pc = "except2_dumps"
                    /\ errors' = errors /\ store' = store
                    /\ state'.running = FALSE
                    /\ state'.chapter = state.chapter
                    /\ state'.current_url = state.current_url)
            /\ (w.pc = "except2_dumps" /\ w2 # w)
                => (/\ w2.pc = "except2_put"
                    /\ w2.buf = <<state>>
                    /\ errors' = errors /\ store' = store /\ state' = state)
            /\ (w.pc = "except2_put" /\ w2 # w)
                => (/\ w2.pc = "none"
                    /\ errors' = errors /\ store' = store /\ state' = state
                    /\ pstate' = <<state>>)

C4_FaultIsolation == [](C4_AfterFault) /\ [][C4_FaultSteps]_vars

C4_Witness ==
    /\ Quiescent
    /\ state.last_action = Action("Error occurred")
    /\ Len(errors) = 1
    /\ LastError.error = "translate"
    /\ LastError.chapter = 2
    /\ ChapterNumbers = {1}

\* C5: whenever no thread is in the middle of anything (no worker alive, no
\* request in progress), the chapter numbers present in the store are exactly
\* 1..m for some m.
C5_Gapless == Quiescent => ChapterNumbers = 1..Cardinality(ChapterNumbers)

\* C6: whenever no thread is in the middle of anything, the chapter counter
\* equals the number of chapter objects in the store.
C6_CounterMatchesStore == Quiescent => state.chapter = Cardinality(store)

\* C7: a /stop issued when running == False changes no field of the state
\* dict, no stored chapter and no error record.
C7_StopNoOp ==
    [][(Stop /\ Get(state, "running") = <<FALSE>>)
         => (state' = state /\ store' = store /\ errors' = errors)]_vars

\* C8: after a /reset issued with no worker alive and no request in progress
\* has returned, the store has no chapter object, chapter == 0, visited is
\* empty, current_url is None, running is False and the error list is empty,
\* in memory and in state.json and errors.json.
C8_ResetClears ==
    (Quiescent /\ Get(state, "last_action") = <<Action("Reset")>>)
    => (/\ store = {}
        /\ Get(state, "chapter") = <<0>>
        /\ Get(state, "visited") = << << >> >>
        /\ Get(state, "current_url") = <<NoUrl>>
        /\ Get(state, "running") = <<FALSE>>
        /\ errors = << >>
        /\ pstate = <<[running |-> FALSE, current_url |-> NoUrl, chapter |-> 0,
                       visited |-> << >>, last_action |-> Action("Reset")]>>
        /\ perrors = << << >> >>)

\* C9: no step of a /start request that arrived when running was True starts
\* a thread, writes to the bucket or changes a key of the state dict other
\* than current_url, which its first step sets to the supplied URL if one was
\* supplied.
C9_StartWhileRunning ==
    [][\A r \in Rids :
        (r \in called' /\ startCall'[r] # startCall[r])
        => (/\ workers' = workers
            /\ store' = store /\ errors' = errors
            /\ pstate' = pstate /\ perrors' = perrors
            /\ \A k \in DOMAIN state \ {"current_url"} :
                 Get(state', k) = Get(state, k)
            /\ DOMAIN state' \subseteq DOMAIN state \cup {"current_url"}
            /\ Get(state', "current_url") =
                 IF startCall[r].pc = "idle" /\ startCall'[r].url # NoUrl
                 THEN <<startCall'[r].url>> ELSE Get(state, "current_url"))]_vars

\* C10: once /stop has been issued during the run (a worker alive, no later
\* /start): running is False from then on, at most one chapter object is
\* written after it, and the worker thread ends for good.  (Stopped, once
\* true, stays true: the last conjunct says that from some moment on no
\* worker thread is alive in a run that was stopped.)
Stopped == at_stop # << >>

C10_AfterStop ==
    Stopped => (/\ state.running = FALSE
                /\ Cardinality(store \ at_stop[1]) <= 1
                /\ Cardinality(store) <= Cardinality(at_stop[1]) + 1)

C10_Cancellation ==
    /\ [](C10_AfterStop)
    /\ <>[](Stopped => LiveWorkers = {})

C10_Witness ==
    /\ Stopped
    /\ LiveWorkers = {}
    /\ Cardinality(store \ at_stop[1]) = 1
    /\ at_stop[1] # {}
    /\ state.current_url # NoUrl

\* C11: in sequential operation, once an attempt at URL u has failed (the last
\* error record names u): a /start finds running == False and goes on to spawn;
\* the spawned worker's first iteration (last_action still "Started") does not
\* take u for a duplicate; and when its save_chapter succeeds the object
\* written is chapter k, k-1 being the number of chapters saved so far.
C11_ResumeAfterFailure ==
    [][\A t \in Tids :
        LET w == workers[t]
            w2 == workers'[t]
        IN  (Len(errors) > 0 /\ Get(state, "current_url") = <<LastError.url>>)
            => /\ (/\ Get(state, "last_action") = <<Action("Error occurred")>>
                   /\ startCall[t].pc = "check_running"
                   /\ startCall'[t] # startCall[t])
                   => startCall'[t].pc = "set_running"
               /\ (/\ Get(state, "last_action") = <<Action("Started")>>
                   /\ w.pc = "dup" /\ w.url = LastError.url /\ w2 # w)
                   => w2.pc = "fetching"
               /\ (w.pc = "save_put" /\ w.url = LastError.url /\ w2.pc = "visit")
                   => store' = save_chapter(store, Len(state.visited) + 1,
                                            w.url)]_vars

\* C12: after a crash during a run and the restart, a /start with no URL that
\* reaches the test of line 189 with no worker thread alive goes on to spawn
\* one, and the first URL a worker reads after the restart is the persisted
\* current_url.
C12_RestartSurvival ==
    [][/\ \A r \in Rids :
            (/\ Restarted
             /\ LiveWorkers = {}
             /\ startCall[r].pc = "check_running"
             /\ startCall'[r] # startCall[r])
            => startCall'[r].pc = "set_running"
       /\ \A t \in Tids :
            (/\ Restarted
             /\ state.last_action = Action("Started")
             /\ workers[t].pc = "read" /\ workers'[t] # workers[t])
            => workers'[t].url = load_json(pstate, << >>, FALSE).current_url]_vars

\* C13: a step of a worker thread removes no chapter object and changes the
\* body of none, and save_chapter never puts to a key that is already in the
\* store.
C13_ChapterImmutable ==
    [][\A t \in Tids :
        (workers'[t] # workers[t])
        => /\ \A o \in store : o \in store'
           /\ (workers[t].pc = "save_put" /\ workers'[t].pc = "visit")
               => ChapterKey(workers[t].num) \notin Range(list_chapters)]_vars

\* C14 as stated: a worker that has reached the Extractor (or any later point
\* of the iteration) has its URL in visited, in memory and in state.json.
C14_VisitedBeforeFetch ==
    \A t \in Tids :
        (workers[t].pc \in {"scrape", "translate", "save", "save_put", "visit",
                            "except_scrape", "except_translate", "except_save",
                            "except_append", "except_dumps", "except_put",
                            "except2", "except2_dumps", "except2_put"})
        => (/\ workers[t].url \in Range(state.visited)
            /\ pstate # << >>
            /\ workers[t].url \in Range(pstate[1].visited))

\* C14 as amended: in sequential operation the URL of an iteration is not in
\* visited while the iteration runs nor after it has failed; visited changes
\* only at line 143, which appends the URL whose chapter the iteration has
\* just stored, and at the clear and update of /reset; the save_json of line
\* 147 then builds its body from that state and the put leaves state.json
\* equal to the state.
InIteration ==
    {"fetching", "fetching_dumps", "fetching_put", "scrape", "translate",
     "save", "save_put", "visit", "except_scrape", "except_translate",
     "except_save", "except_append", "except_dumps", "except_put", "except2",
     "except2_dumps", "except2_put"}

C14_NotYetVisited ==
    /\ \A t \in Tids :
         workers[t].pc \in InIteration
         => workers[t].url \notin Range(state.visited)
    /\ (Quiescent /\ state.last_action = Action("Error occurred")
        /\ Len(errors) > 0)
       => LastError.url \notin Range(state.visited)

C14_VisitedSteps ==
    /\ Get(state', "visited") # Get(state, "visited")
       => \/ /\ \E r \in Rids :
                    resetCall[r].pc = "clear" /\ resetCall'[r].pc = "update"
             /\ Get(state', "visited") = << >>
          \/ /\ \E r \in Rids :
                    resetCall[r].pc = "update" /\ resetCall'[r].pc = "clear_errors"
             /\ Get(state', "visited") = << << >> >>
          \/ \E t \in Tids :
               /\ workers[t].pc = "visit" /\ workers'[t].pc = "commit"
               /\ [key |-> ChapterKey(state.chapter),
                   body |-> [src |-> workers[t].url]] \in store
               /\ state'.visited = Append(state.visited, workers[t].url)
    /\ \A t \in Tids :
         (workers[t].pc = "commit_dumps" /\ workers'[t] # workers[t])
         => (/\ workers'[t].pc = "commit_put"
             /\ workers'[t].buf = <<state>>
             /\ workers[t].url \in Range(state.visited))
    /\ \A t \in Tids :
         (workers[t].pc = "commit_put" /\ workers'[t] # workers[t])
         => (/\ workers'[t].pc = "check_next"
             /\ pstate' = <<state>>
             /\ workers[t].url \in Range(pstate'[1].visited))

C14_VisitedAfterSave == [](C14_NotYetVisited) /\ [][C14_VisitedSteps]_vars

C14_Witness ==
    /\ Quiescent
    /\ state.last_action = Action("Error occurred")
    /\ Len(errors) = 1
    /\ LastError.error = "scrape"
    /\ Len(state.visited) = 1
    /\ LastError.url \notin Range(state.visited)
    /\ pstate = <<state>>

\* C15: in sequential operation, the error record appended by the except block
\* names the chapter the iteration announced at line 134 ("Fetching chapter k",
\* k-1 chapters saved so far) and the URL the iteration read at line 125,
\* whichever of scrape, translate and save_chapter raised.
C15_ErrorNamesAttempt ==
    [][\A t \in Tids :
        (/\ workers[t].pc = "except_append"
         /\ workers'[t].pc = "except_dumps"
         /\ workers[t].rec[1].error \in {"scrape", "translate", "save"})
        => (/\ Len(errors') = Len(errors) + 1
            /\ state.last_action.kind = "Fetching chapter"
            /\ errors'[Len(errors')].chapter = state.last_action.n
            /\ errors'[Len(errors')].chapter = Len(state.visited) + 1
            /\ errors'[Len(errors')].url = workers[t].url)]_vars

\* C16: every write of state.json leaves a snapshot whose chapter counter is
\* the number of chapter objects in the store or one less, and whose visited
\* lists only URLs whose chapter is in the store.
SnapshotConsistent(p, objs) ==
    /\ p.chapter \in {Cardinality(objs), Cardinality(objs) - 1}
    /\ \A u \in Range(p.visited) : \E o \in objs : o.body.src = u

C16_CrashConsistency ==
    [][pstate' # pstate => SnapshotConsistent(pstate'[1], store')]_vars

\* C17: for every next-link function over the pages (self links, backward
\* links and cycles included), the run begun by a single /start stores at most
\* one chapter per page, and leads to a state that lasts in which no worker
\* thread is alive, the request has returned and running == False.
OneChapterPerUrl ==
    /\ \A o1, o2 \in store : o1.body = o2.body => o1 = o2
    /\ Cardinality(store) <= Cardinality(URLs)

RunOver == LiveWorkers = {} /\ StartIdle /\ ~state.running

C17_Termination ==
    /\ [](OneChapterPerUrl)
    /\ (\E r \in Rids : startCall[r].pc = "check_url") ~> [](RunOver)

C17_Witness ==
    /\ RunOver
    /\ state.last_action = Action("Stopped (duplicate detected)")
    /\ Cardinality(store) = RunUrls
    /\ Len(state.visited) = RunUrls

\* C18: with no /reset, no two chapter objects of the store come from the same
\* source page.
C18_NoDuplicateWork ==
    \A o1, o2 \in store : o1.body.src = o2.body.src => o1.key = o2.key

\* C19: once a /reset issued during the run has returned (no later /start),
\* no step writes a chapter object to the store, and chapter, visited and
\* current_url keep their reset values 0, [] and None.
ResetReturned == calls_left < ResetRunCalls - 1 /\ ResetIdle

C19_ResetForcesStop ==
    [][ResetReturned
        => (/\ store' = store
            /\ Get(state', "chapter") = <<0>>
            /\ Get(state', "visited") = << << >> >>
            /\ Get(state', "current_url") = <<NoUrl>>)]_vars

\* C20: whenever no worker thread is alive and neither a /start nor a /reset
\* request is in progress, running == False.
C20_NoOrphanedFlag ==
    (LiveWorkers = {} /\ StartIdle /\ ResetIdle)
    => Get(state, "running") # <<TRUE>>

====
